---- MODULE Spec2Model ----
(***************************************************************************)
(* iron_middlefiddle (src/src/lib.rs): the middlefiddle! macro, which      *)
(* binds a table of routes to a router with one shared middleware set, and *)
(* Middlefiddle, the handler that wraps an iron Chain built from a route's *)
(* handler and that middleware set.                                        *)
(*                                                                         *)
(* Two collaborators live outside the crate: the router (its registration  *)
(* calls are recorded as a sequence of entries) and iron's Chain (its      *)
(* link_before / link_after / handle are modelled after iron 0.5's         *)
(* middleware contract, to which lib.rs delegates).                        *)
(***************************************************************************)
EXTENDS Naturals, Sequences, FiniteSets

VARIABLES
    declRoutes,   \* the `routes => { ... }` section of one macro call
    declMw,       \* the `middleware => { ... }` section of the same call
    routes,       \* the Vec<Route> of the expansion (line 214)
    pcM,          \* position of the expansion: "push", "loop", "done"
    loopI,        \* index of the route the `for` loop of line 225 is at
    router,       \* the router's registration calls, in call order
    panicked,     \* an unwrap() of the expansion met None
    mwArg,        \* mwArg[c]: the `middleware` argument of the c-th Middlefiddle::new
    mf,           \* mf[c]: the c-th Middlefiddle, None until new has returned
    tgt,          \* tgt[i]: the Middlefiddle that invocation i of handle is on
    beh,          \* beh[i]: what the wrapped units answer to the request of i
    ipc,          \* ipc[i]: position of invocation i inside Chain::handle
    idx,          \* idx[i]: index of the next before- or after-middleware
    cur,          \* cur[i]: the response or error carried along the chain
    log,          \* log[i]: the calls invocation i has made, in order
    ret           \* ret[i]: the value Middlefiddle::handle returned

bindVars == <<declRoutes, declMw, routes, pcM, loopI, router, panicked>>
chainVars == <<mwArg, mf, tgt, beh, ipc, idx, cur, log, ret>>
vars == <<declRoutes, declMw, routes, pcM, loopI, router, panicked,
          mwArg, mf, tgt, beh, ipc, idx, cur, log, ret>>

----------------------------------------------------------------------------
(* Bounds and input universes *)

MaxRoutes == 2
MaxBindMw == 2
MaxMw == 3
MaxConcMw == 2

Chains == {1, 2}
Invs == {1, 2}

RouteIds == {"lorem", "ipsum"}
Units == {"Auth", "Log"}

\* the method arms of the match of lines 238-245
Recognized == {"get", "post", "put", "delete", "head", "patch", "options", "any"}
\* $route_method:ident accepts any identifier
MethodTags == Recognized \cup {"trace", "GET"}

PathOf(id) == IF id = "lorem" THEN "/lorem" ELSE "/ipsum"
HandlerOf(id) == IF id = "lorem" THEN "H1" ELSE "H2"

SeqsUpTo(S, n) == UNION {[1..k -> S] : k \in 0..n}

\* one `$route_id: $route_method $route => $route_handler` line
DeclRoute == {[id |-> i, method |-> m, route |-> PathOf(i), handler |-> HandlerOf(i)] :
                 i \in RouteIds, m \in MethodTags}

\* one `$middleware_type => $middleware_handler` line
MwKinds == {"BeforeMiddleware", "AfterMiddleware"}
DeclMiddleware == [kind : MwKinds, unit : Units]
\* the middleware lines drawn from where a route table or a second request
\* multiplies the inputs
FewMiddleware == DeclMiddleware \ {[kind |-> "AfterMiddleware", unit |-> "Auth"]}

----------------------------------------------------------------------------
(* Option<T> *)

None == <<>>
Some(x) == <<x>>
IsSome(o) == Len(o) = 1
Unwrap(o) == o[1]

----------------------------------------------------------------------------
(* iron::Chain as Middlefiddle::new uses it *)

ChainNew(handler) == [handler |-> handler, befores |-> <<>>, afters |-> <<>>]
LinkBefore(chain, i) == [chain EXCEPT !.befores = Append(@, i)]
LinkAfter(chain, i) == [chain EXCEPT !.afters = Append(@, i)]

\* the two arms of the match exchanged
LinkOneSwapped(chain, m) ==
    IF m.kind = "BeforeMiddleware" THEN LinkAfter(chain, m.unit)
    ELSE LinkBefore(chain, m.unit)

\* every unit linked as a before-middleware, whatever its tag
LinkOneAllBefore(chain, m) == LinkBefore(chain, m.unit)

\* the match of lines 124-131 on one Box<Middleware>
LinkOne(chain, m) ==
    IF m.kind = "BeforeMiddleware" THEN LinkBefore(chain, m.unit)
    ELSE LinkAfter(chain, m.unit)

\* the loop run from the last declared middleware to the first
RECURSIVE LinkAllReversed(_, _)
LinkAllReversed(chain, middleware) ==
    IF middleware = <<>> THEN chain
    ELSE LinkOne(LinkAllReversed(chain, Tail(middleware)), Head(middleware))

\* the loop of lines 123-132
RECURSIVE LinkAll(_, _)
LinkAll(chain, middleware) ==
    IF middleware = <<>> THEN chain
    ELSE LinkAll(LinkOne(chain, Head(middleware)), Tail(middleware))

\* the units of one name linked ahead of the others, whatever the declared order
IsAuthUnit(m) == m.unit = "Auth"
IsOtherUnit(m) == m.unit # "Auth"
MiddlefiddleNewGrouped(handler, middleware) ==
    [chain |-> LinkAll(ChainNew(handler),
                       SelectSeq(middleware, IsAuthUnit) \o SelectSeq(middleware, IsOtherUnit))]

\* lines 120-137
MiddlefiddleNew(handler, middleware) ==
    [chain |-> LinkAll(ChainNew(handler), middleware)]

----------------------------------------------------------------------------
(* The wrapped units: iron's BeforeMiddleware, Handler and AfterMiddleware  *)
(* traits. A unit is opaque; what it answers is a function of the request, *)
(* given here by the request's behaviour b:                                *)
(*   b.fail       the units whose before()/after() returns Err             *)
(*   b.recover    the units whose catch() turns the error into Ok          *)
(*   b.handlerOk  whether the terminal handler returns Ok                  *)
(* A value is tagged with the unit that produced it.                       *)

Behaviour == [fail : SUBSET Units, recover : SUBSET Units, handlerOk : BOOLEAN]

NoValue == [tag |-> "None", by |-> ""]

BeforeHook(u, b) ==
    IF u \in b.fail THEN [tag |-> "Err", by |-> u] ELSE [tag |-> "Unit", by |-> u]
\* the trait's default catch hands the error on: Err(err)
BeforeCatch(u, b, err) ==
    IF u \in b.recover THEN [tag |-> "Unit", by |-> u] ELSE err
HandlerHook(h, b) ==
    IF b.handlerOk THEN [tag |-> "Ok", by |-> h] ELSE [tag |-> "Err", by |-> h]
\* the trait's default after hands the response on: Ok(res)
AfterHook(u, b, res) ==
    IF u \in b.fail THEN [tag |-> "Err", by |-> u] ELSE res
AfterCatch(u, b, err) ==
    IF u \in b.recover THEN [tag |-> "Ok", by |-> u] ELSE err

Call(unit, hook, out) == [unit |-> unit, hook |-> hook, out |-> out]

----------------------------------------------------------------------------
(* iron::Chain::handle, one call of a wrapped unit per step.               *)
(* c is the chain, s = [pc, idx, cur, log] the locals of one invocation.   *)

\* the bounds checks at the head of continue_from_before, fail_from_before,
\* continue_from_after and fail_from_after: a phase with nothing left
\* yields to the next one
RECURSIVE Yield(_, _, _)
Yield(c, pc, i) ==
    IF pc = "before" /\ i > Len(c.befores) THEN <<"handler", 1>>
    ELSE IF pc = "fail_before" /\ i > Len(c.befores) THEN Yield(c, "fail_after", 1)
    ELSE IF pc \in {"after", "fail_after"} /\ i > Len(c.afters) THEN <<"ret", 1>>
    ELSE <<pc, i>>

Goto(c, s, pc, i, out, call) ==
    [pc |-> Yield(c, pc, i)[1], idx |-> Yield(c, pc, i)[2], cur |-> out,
     log |-> Append(s.log, call)]

\* Chain::handle: self.continue_from_before(req, 0)
ChainEnter(c) ==
    [pc |-> Yield(c, "before", 1)[1], idx |-> Yield(c, "before", 1)[2],
     cur |-> NoValue, log |-> <<>>]

ContinueFromBefore(c, b, s) ==
    LET u == c.befores[s.idx]
        out == BeforeHook(u, b)
    IN  IF out.tag = "Err"
        THEN Goto(c, s, "fail_before", s.idx + 1, out, Call(u, "before", out))
        ELSE Goto(c, s, "before", s.idx + 1, out, Call(u, "before", out))

FailFromBefore(c, b, s) ==
    LET u == c.befores[s.idx]
        out == BeforeCatch(u, b, s.cur)
    IN  IF out.tag = "Err"
        THEN Goto(c, s, "fail_before", s.idx + 1, out, Call(u, "catch", out))
        ELSE Goto(c, s, "before", s.idx + 1, out, Call(u, "catch", out))

ContinueFromHandler(c, b, s) ==
    LET out == HandlerHook(c.handler, b)
    IN  IF out.tag = "Err"
        THEN Goto(c, s, "fail_after", 1, out, Call(c.handler, "handle", out))
        ELSE Goto(c, s, "after", 1, out, Call(c.handler, "handle", out))

ContinueFromAfter(c, b, s) ==
    LET u == c.afters[s.idx]
        out == AfterHook(u, b, s.cur)
    IN  IF out.tag = "Err"
        THEN Goto(c, s, "fail_after", s.idx + 1, out, Call(u, "after", out))
        ELSE Goto(c, s, "after", s.idx + 1, out, Call(u, "after", out))

FailFromAfter(c, b, s) ==
    LET u == c.afters[s.idx]
        out == AfterCatch(u, b, s.cur)
    IN  IF out.tag = "Err"
        THEN Goto(c, s, "fail_after", s.idx + 1, out, Call(u, "catch", out))
        ELSE Goto(c, s, "after", s.idx + 1, out, Call(u, "catch", out))

----------------------------------------------------------------------------
(* Middlefiddle::new and Middlefiddle::handle as steps *)

\* the locals of invocation i
Locals(i) == [pc |-> ipc[i], idx |-> idx[i], cur |-> cur[i], log |-> log[i]]

SetLocals(i, s) ==
    /\ ipc' = [ipc EXCEPT ![i] = s.pc]
    /\ idx' = [idx EXCEPT ![i] = s.idx]
    /\ cur' = [cur EXCEPT ![i] = s.cur]
    /\ log' = [log EXCEPT ![i] = s.log]

\* `self.chain` of the Middlefiddle invocation i is on (line 142)
SelfChain(i) == Unwrap(mf[tgt[i]]).chain

\* the request kept in a place all invocations share
ReqShared(i) == beh[1]

\* the request handed to the chain (line 142)
Req(i) == beh[i]

\* an error of the chain turned into a response of the wrapper's own
HandleResultSwallowed(res) ==
    IF res.tag = "Err" THEN [tag |-> "Ok", by |-> "Middlefiddle"] ELSE res

\* the value of the body of handle (line 142): the chain's result as it is
HandleResult(res) == res

\* lines 120-137
New(c) ==
    /\ mf[c] = None
    /\ mf' = [mf EXCEPT ![c] = Some(MiddlefiddleNew("H1", mwArg[c]))]
    /\ UNCHANGED <<mwArg, tgt, beh, ipc, idx, cur, log, ret>>
    /\ UNCHANGED bindVars

\* line 141-142: handle is entered and calls self.chain.handle(req)
Handle(i) ==
    /\ ipc[i] = "idle"
    /\ IsSome(mf[tgt[i]])
    /\ SetLocals(i, ChainEnter(SelfChain(i)))
    /\ UNCHANGED <<mwArg, mf, tgt, beh, ret>>
    /\ UNCHANGED bindVars

StepBefore(i) ==
    /\ ipc[i] = "before"
    /\ SetLocals(i, ContinueFromBefore(SelfChain(i), Req(i), Locals(i)))
    /\ UNCHANGED <<mwArg, mf, tgt, beh, ret>>
    /\ UNCHANGED bindVars

StepFailBefore(i) ==
    /\ ipc[i] = "fail_before"
    /\ SetLocals(i, FailFromBefore(SelfChain(i), Req(i), Locals(i)))
    /\ UNCHANGED <<mwArg, mf, tgt, beh, ret>>
    /\ UNCHANGED bindVars

StepHandler(i) ==
    /\ ipc[i] = "handler"
    /\ SetLocals(i, ContinueFromHandler(SelfChain(i), Req(i), Locals(i)))
    /\ UNCHANGED <<mwArg, mf, tgt, beh, ret>>
    /\ UNCHANGED bindVars

StepAfter(i) ==
    /\ ipc[i] = "after"
    /\ SetLocals(i, ContinueFromAfter(SelfChain(i), Req(i), Locals(i)))
    /\ UNCHANGED <<mwArg, mf, tgt, beh, ret>>
    /\ UNCHANGED bindVars

StepFailAfter(i) ==
    /\ ipc[i] = "fail_after"
    /\ SetLocals(i, FailFromAfter(SelfChain(i), Req(i), Locals(i)))
    /\ UNCHANGED <<mwArg, mf, tgt, beh, ret>>
    /\ UNCHANGED bindVars

\* line 142-143: the chain's result is the result of handle
Return(i) ==
    /\ ipc[i] = "ret"
    /\ ret' = [ret EXCEPT ![i] = Some(HandleResult(cur[i]))]
    /\ ipc' = [ipc EXCEPT ![i] = "done"]
    /\ UNCHANGED <<mwArg, mf, tgt, beh, idx, cur, log>>
    /\ UNCHANGED bindVars

NoBehaviour == [fail |-> {}, recover |-> {}, handlerOk |-> TRUE]

IdleInvs ==
    /\ ipc = [i \in Invs |-> "idle"]
    /\ idx = [i \in Invs |-> 1]
    /\ cur = [i \in Invs |-> NoValue]
    /\ log = [i \in Invs |-> <<>>]
    /\ ret = [i \in Invs |-> None]

\* no Middlefiddle is served while the macro expansion is looked at
NoChains ==
    /\ mwArg = [c \in Chains |-> <<>>]
    /\ mf = [c \in Chains |-> None]
    /\ tgt = [i \in Invs |-> 1]
    /\ beh = [i \in Invs |-> NoBehaviour]
    /\ IdleInvs

\* no macro expansion runs while a Middlefiddle is looked at
NoBind ==
    /\ declRoutes = <<>>
    /\ declMw = <<>>
    /\ routes = <<>>
    /\ pcM = "done"
    /\ loopI = 1
    /\ router = <<>>
    /\ panicked = FALSE

Reverse(a) == [k \in 1..Len(a) |-> a[Len(a) + 1 - k]]
Rotate(a) == IF a = <<>> THEN a ELSE Append(Tail(a), Head(a))
\* the same middleware declared in another order
Reorderings(a) == {a, Reverse(a), Rotate(a)}

\* Two Middlefiddles built from the same middleware in two orders; one
\* request is served by the first and then by the second.
InitChain ==
    /\ NoBind
    /\ \E m \in SeqsUpTo(DeclMiddleware, MaxMw) : \E n \in Reorderings(m) :
          mwArg = [c \in Chains |-> IF c = 1 THEN m ELSE n]
    /\ mf = [c \in Chains |-> None]
    /\ tgt = [i \in Invs |-> i]
    /\ \E b \in Behaviour : beh = [i \in Invs |-> b]
    /\ IdleInvs

Serial(i) == \A j \in Invs : j < i => ipc[j] = "done"

\* handle is called on the second Middlefiddle once the first has returned
HandleInTurn(i) == Serial(i) /\ Handle(i)

NextChain ==
    \/ \E c \in Chains : New(c)
    \/ \E i \in Invs :
          \/ HandleInTurn(i)
          \/ StepBefore(i)
          \/ StepFailBefore(i)
          \/ StepHandler(i)
          \/ StepAfter(i)
          \/ StepFailAfter(i)
          \/ Return(i)

SpecChain == InitChain /\ [][NextChain]_vars

\* Chain::handle run to its end on its own: the calls made and the result
ChainStep(c, b, s) ==
    IF s.pc = "before" THEN ContinueFromBefore(c, b, s)
    ELSE IF s.pc = "fail_before" THEN FailFromBefore(c, b, s)
    ELSE IF s.pc = "handler" THEN ContinueFromHandler(c, b, s)
    ELSE IF s.pc = "after" THEN ContinueFromAfter(c, b, s)
    ELSE FailFromAfter(c, b, s)

RECURSIVE RunFrom(_, _, _)
RunFrom(c, b, s) == IF s.pc = "ret" THEN s ELSE RunFrom(c, b, ChainStep(c, b, s))

RunAlone(c, b) == RunFrom(c, b, ChainEnter(c))

\* One Middlefiddle, invoked for two requests whose calls interleave freely.
InitConc ==
    /\ NoBind
    /\ \E m \in SeqsUpTo(FewMiddleware, MaxConcMw) : mwArg = [c \in Chains |-> m]
    /\ mf = [c \in Chains |-> None]
    /\ tgt = [i \in Invs |-> 1]
    /\ beh \in [Invs -> Behaviour]
    /\ IdleInvs

NextConc ==
    \/ New(1)
    \/ \E i \in Invs :
          \/ Handle(i)
          \/ StepBefore(i)
          \/ StepFailBefore(i)
          \/ StepHandler(i)
          \/ StepAfter(i)
          \/ StepFailAfter(i)
          \/ Return(i)

SpecConc == InitConc /\ [][NextConc]_vars

----------------------------------------------------------------------------
(* The expansion of middlefiddle! *)

\* every Route pushed with the handler of the route named lorem
MkRouteOneHandler(d) ==
    [id |-> Some(d.id), method |-> d.method, route |-> Some(d.route),
     handler |-> Some(HandlerOf("lorem"))]

\* lines 217-222: the Route pushed for one declared route
MkRoute(d) ==
    [id |-> Some(d.id), method |-> d.method, route |-> Some(d.route),
     handler |-> Some(d.handler)]

\* lines 226-230: the middleware Vec, rebuilt for every route
BuildMiddleware(decl) == [k \in 1..Len(decl) |-> [kind |-> decl[k].kind, unit |-> decl[k].unit]]

\* the router's registration call of the given name
RouterRoute(rt, method, glob, handler, id) ==
    Append(rt, [method |-> method, glob |-> glob, handler |-> handler, id |-> id])

\* the fallback arm registering the route as a get route
DispatchFallbackGet(rt, method, glob, chain, id) ==
    IF method \in Recognized THEN RouterRoute(rt, method, glob, chain, id)
    ELSE RouterRoute(rt, "get", glob, chain, id)

\* lines 237-247: the match on route.method
Dispatch(rt, method, glob, chain, id) ==
    IF method \in Recognized THEN RouterRoute(rt, method, glob, chain, id)
    ELSE rt

Init ==
    /\ declRoutes \in SeqsUpTo(DeclRoute, MaxRoutes) \ {<<>>}
    /\ declMw \in SeqsUpTo(FewMiddleware, MaxBindMw)
    /\ routes = <<>>
    /\ pcM = "push"
    /\ loopI = 1
    /\ router = <<>>
    /\ panicked = FALSE
    /\ NoChains

\* lines 214-223: the pushes, one statement per declared route
PushRoutes ==
    /\ pcM = "push"
    /\ routes' = [k \in 1..Len(declRoutes) |-> MkRoute(declRoutes[k])]
    /\ pcM' = "loop"
    /\ UNCHANGED <<declRoutes, declMw, loopI, router, panicked>>
    /\ UNCHANGED chainVars

\* lines 225-248, one iteration of the loop body
BindRoute ==
    /\ pcM = "loop"
    /\ loopI <= Len(routes)
    /\ LET route == routes[loopI]
           middleware == BuildMiddleware(declMw)
           route_id == route.id
           route_route == route.route
           route_handler == route.handler
       IN  IF ~IsSome(route_handler)
           THEN /\ panicked' = TRUE
                /\ pcM' = "done"
                /\ UNCHANGED <<router, loopI>>
           ELSE LET middleware_chain == MiddlefiddleNew(Unwrap(route_handler), middleware)
                IN  IF route.method \in Recognized /\ ~(IsSome(route_route) /\ IsSome(route_id))
                    THEN /\ panicked' = TRUE
                         /\ pcM' = "done"
                         /\ UNCHANGED <<router, loopI>>
                    ELSE /\ router' = Dispatch(router, route.method, Unwrap(route_route),
                                               middleware_chain, Unwrap(route_id))
                         /\ loopI' = loopI + 1
                         /\ pcM' = IF loopI' > Len(routes) THEN "done" ELSE "loop"
                         /\ UNCHANGED panicked
    /\ UNCHANGED <<declRoutes, declMw, routes>>
    /\ UNCHANGED chainVars

Next == PushRoutes \/ BindRoute

Spec == Init /\ [][Next]_vars

----------------------------------------------------------------------------
(* Properties *)

IsBefore(m) == m.kind = "BeforeMiddleware"
IsAfter(m) == m.kind = "AfterMiddleware"
UnitsOf(ms) == [k \in 1..Len(ms) |-> ms[k].unit]
\* the declared before- and after-middleware, in declared order
DeclBefores(ms) == UnitsOf(SelectSeq(ms, IsBefore))
DeclAfters(ms) == UnitsOf(SelectSeq(ms, IsAfter))

IsBeforeCall(e) == e.hook = "before"
LogUnits(l) == [k \in 1..Len(l) |-> l[k].unit]
LogHooks(l) == [k \in 1..Len(l) |-> l[k].hook]
\* the units whose before() the invocation has called, in call order
BeforeCalls(l) == LogUnits(SelectSeq(l, IsBeforeCall))

Const(n, x) == [k \in 1..n |-> x]
IsPrefix(a, b) == Len(a) <= Len(b) /\ \A k \in 1..Len(a) : a[k] = b[k]

\* the middleware list invocation i's Middlefiddle was built from
ArgOf(i) == mwArg[tgt[i]]
\* every declared before-middleware lets the request of i pass
Passes(i) == \A k \in 1..Len(DeclBefores(ArgOf(i))) : DeclBefores(ArgOf(i))[k] \notin beh[i].fail
\* k is the first declared before-middleware that halts the request of i
HaltsAt(i, k) ==
    /\ k \in 1..Len(DeclBefores(ArgOf(i)))
    /\ DeclBefores(ArgOf(i))[k] \in beh[i].fail
    /\ \A j \in 1..(k - 1) : DeclBefores(ArgOf(i))[j] \notin beh[i].fail
\* no middleware after the k-th before-middleware recovers the error
NoRecoveryAfter(i, k) ==
    /\ \A j \in (k + 1)..Len(DeclBefores(ArgOf(i))) : DeclBefores(ArgOf(i))[j] \notin beh[i].recover
    /\ \A j \in 1..Len(DeclAfters(ArgOf(i))) : DeclAfters(ArgOf(i))[j] \notin beh[i].recover

\* C2: on a request that every before-middleware lets pass, a finished
\* handle has called each before-middleware once in declared order (its
\* before), then the terminal handler once, then each after-middleware once
\* in declared order; nothing else, so no after-middleware precedes the
\* handler and no before-middleware follows it.
C2_PassingOrder ==
    \A i \in Invs : (ipc[i] = "done" /\ Passes(i)) =>
        LET nb == Len(DeclBefores(ArgOf(i)))
            na == Len(DeclAfters(ArgOf(i)))
        IN  /\ LogUnits(log[i]) = DeclBefores(ArgOf(i)) \o <<"H1">> \o DeclAfters(ArgOf(i))
            /\ SubSeq(LogHooks(log[i]), 1, nb + 1) = Const(nb, "before") \o <<"handle">>
            /\ \A k \in (nb + 2)..(nb + 1 + na) : log[i][k].hook \in {"after", "catch"}

C2_Witness ==
    /\ ipc[1] = "done"
    /\ Passes(1)
    /\ Len(DeclBefores(ArgOf(1))) = 2
    /\ Len(DeclAfters(ArgOf(1))) = 1
    /\ DeclBefores(ArgOf(1))[1] # DeclBefores(ArgOf(1))[2]

C5_ResultVerbatim ==
    \A i \in Invs :
        IF ipc[i] = "done"
        THEN /\ Len(log[i]) > 0
             /\ ret[i] = Some(log[i][Len(log[i])].out)
             /\ Unwrap(ret[i]).tag \in {"Ok", "Err"}
        ELSE ret[i] = None

C5_Witness ==
    /\ ipc[1] = "done"
    /\ ipc[2] = "done"
    /\ Unwrap(ret[1]).tag = "Err"
    /\ Unwrap(ret[2]).tag = "Ok"
    /\ Len(log[1]) = 3

\* C7: two Middlefiddles built from the same middleware in two orders, one
\* passing request served by each: the before-middleware each has called
\* are its own declared order, so the two call orders differ exactly when
\* the declared orders of the before-middleware differ.
C7_OrderSensitive ==
    (ipc[1] = "done" /\ ipc[2] = "done" /\ Passes(1) /\ Passes(2)) =>
        /\ BeforeCalls(log[1]) = DeclBefores(mwArg[1])
        /\ BeforeCalls(log[2]) = DeclBefores(mwArg[2])
        /\ (BeforeCalls(log[1]) # BeforeCalls(log[2]))
              <=> (DeclBefores(mwArg[1]) # DeclBefores(mwArg[2]))

C7_Witness ==
    /\ ipc[1] = "done"
    /\ ipc[2] = "done"
    /\ Passes(1)
    /\ mwArg[1] # mwArg[2]
    /\ BeforeCalls(log[1]) = <<"Auth", "Log">>
    /\ BeforeCalls(log[2]) = <<"Log", "Auth">>

\* C10: Middlefiddle::new splits the declared list by tag: the chain's
\* before-list is the declared BeforeMiddleware in declared order, its
\* after-list the declared AfterMiddleware in declared order, every unit
\* linked once; and whatever the positions in the declared list, every
\* call of a before() precedes the call of the terminal handler.
C10_Partition ==
    /\ \A c \in Chains : IsSome(mf[c]) =>
          LET chain == Unwrap(mf[c]).chain
          IN  /\ chain.handler = "H1"
              /\ chain.befores = DeclBefores(mwArg[c])
              /\ chain.afters = DeclAfters(mwArg[c])
              /\ Len(chain.befores) + Len(chain.afters) = Len(mwArg[c])
    /\ \A i \in Invs : \A x, y \in 1..Len(log[i]) :
          (log[i][x].hook = "before" /\ log[i][y].hook = "handle") => x < y

C10_Witness ==
    /\ IsSome(mf[1])
    /\ Len(mwArg[1]) = 3
    /\ IsAfter(mwArg[1][1])
    /\ IsBefore(mwArg[1][2])
    /\ IsAfter(mwArg[1][3])
    /\ ipc[1] = "done"
    /\ \E x \in 1..Len(log[1]) : log[1][x].hook = "handle"

\* C9: with the calls of two invocations of one Middlefiddle interleaved in
\* any way, the calls an invocation has made are at every moment a prefix
\* of the calls it makes when run alone on its own request, a finished
\* invocation has made all of them and returned the same result, and a
\* Middlefiddle is never changed once new has returned.
C9_Isolated ==
    \A i \in Invs : ipc[i] # "idle" =>
        LET alone == RunAlone(Unwrap(mf[tgt[i]]).chain, beh[i])
        IN  /\ IsPrefix(log[i], alone.log)
            /\ ipc[i] \in {"ret", "done"} => log[i] = alone.log /\ cur[i] = alone.cur
            /\ ipc[i] = "done" => ret[i] = Some(alone.cur)

C9_Immutable == \A c \in Chains : IsSome(mf[c]) => mf'[c] = mf[c]

C9_NoSharedState == [](C9_Isolated) /\ [][C9_Immutable]_vars

C9_Witness ==
    /\ tgt[1] = tgt[2]
    /\ ipc[1] = "fail_after"
    /\ ipc[2] = "after"
    /\ Len(log[1]) = 2
    /\ Len(log[2]) = 2
    /\ beh[1] # beh[2]

\* the declared routes the loop of line 225 has been through
Bound == IF pcM = "push" THEN <<>> ELSE SubSeq(declRoutes, 1, loopI - 1)
HasRecognizedMethod(d) == d.method \in Recognized

C4_UnrecognizedSkipped ==
    /\ ~panicked
    /\ LET reg == SelectSeq(Bound, HasRecognizedMethod)
       IN  /\ Len(router) = Len(reg)
           /\ \A j \in 1..Len(reg) :
                 /\ router[j].method = reg[j].method
                 /\ router[j].glob = reg[j].route
                 /\ router[j].id = reg[j].id
    /\ pcM = "done" =>
          Len(router) = Cardinality({k \in 1..Len(declRoutes) : HasRecognizedMethod(declRoutes[k])})

C4_Witness ==
    /\ pcM = "done"
    /\ Len(declRoutes) = 2
    /\ declRoutes[1].method = "trace"
    /\ declRoutes[2].method = "post"
    /\ Len(router) = 1
    /\ router[1].id = declRoutes[2].id

\* C6: every entry of the router is a Middlefiddle whose terminal handler
\* is the handler of the route it was registered for, under that route's
\* id, and whose before- and after-lists are the whole shared middleware
\* set in declared order; invoked on a request that nothing halts, it
\* calls the before-middleware, then that route's handler, then the
\* after-middleware.
C6_SharedMiddlewareOwnHandler ==
    LET reg == SelectSeq(Bound, HasRecognizedMethod)
    IN  \A j \in 1..Len(router) :
           /\ j <= Len(reg)
           /\ router[j].id = reg[j].id
           /\ router[j].handler.chain =
                 [handler |-> reg[j].handler,
                  befores |-> DeclBefores(declMw),
                  afters |-> DeclAfters(declMw)]
           /\ LogUnits(RunAlone(router[j].handler.chain, NoBehaviour).log) =
                 DeclBefores(declMw) \o <<reg[j].handler>> \o DeclAfters(declMw)

C6_Witness ==
    /\ pcM = "done"
    /\ declRoutes = <<[id |-> "lorem", method |-> "get", route |-> "/lorem", handler |-> "H1"],
                      [id |-> "ipsum", method |-> "get", route |-> "/ipsum", handler |-> "H2"]>>
    /\ declMw = <<[kind |-> "BeforeMiddleware", unit |-> "Auth"]>>
    /\ Len(router) = 2
    /\ router[1].method = "get"
    /\ router[2].method = "get"
    /\ LogUnits(RunAlone(router[1].handler.chain, NoBehaviour).log) = <<"Auth", "H1">>
    /\ LogUnits(RunAlone(router[2].handler.chain, NoBehaviour).log) = <<"Auth", "H2">>

====
